---- MODULE Spec2Model ----
(***************************************************************************)
(* Address-space core of the nwind stack unwinder                          *)
(* (nwind/src/address_space.rs): the binary table, the region map and the  *)
(* reconciliation performed by AddressSpace::reload.                       *)
(*                                                                         *)
(* Option<T> is modelled as a sequence of length 0 (None) or 1 (Some).     *)
(* A Vec is a sequence, a HashMap a function, a HashSet a set.  The        *)
(* iteration order of a HashMap or HashSet is not determined by the        *)
(* program, so every such iteration is a nondeterministic choice of order. *)
(***************************************************************************)
EXTENDS Integers, Sequences, FiniteSets, TLC

\* Longest region list handed to reload.
MaxRegions == 3

\* Highest address looked up in the region map.
MaxAddress == 8

NoneOpt == <<>>
Some(x) == <<x>>

----------------------------------------------------------------------------
(* maps::Region, types::BinaryId, binary::{BinaryData, LoadHeader}          *)

\* A Region as the helper of test_reload builds it: readable, executable,
\* not writable, on device 0:0.  Two regions are equal when all their fields
\* are.
Reg(start, end, is_shared, file_offset, inode, name) ==
    [start |-> start, end |-> end,
     is_read |-> TRUE, is_write |-> FALSE, is_executable |-> TRUE,
     is_shared |-> is_shared,
     file_offset |-> file_offset, major |-> 0, minor |-> 0,
     inode |-> inode, name |-> name]

\* Identity of the object behind a region: the inode triple, or the path
\* when there is no inode.
BinaryId(region) ==
    IF region.inode = 0
    THEN [inode |-> 0, dev_major |-> 0, dev_minor |-> 0, name |-> region.name]
    ELSE [inode |-> region.inode, dev_major |-> region.major,
          dev_minor |-> region.minor, name |-> ""]

LoadHeader(address, file_offset) ==
    [address |-> address, file_offset |-> file_offset]

\* Arc<BinaryData>: the object file the loader opened for a region, named
\* by its path.
FileData(region) == region.name

\* BinaryData::load_headers
load_headers(binary_data) ==
    IF binary_data = "file_1"
    THEN << LoadHeader(10, 0), LoadHeader(20, 1) >>
    ELSE << LoadHeader(30, 0) >>

\* BinaryData::arm_exidx_range and arm_extab_range: the file offset at which
\* the section starts, if the file has it.
arm_exidx_range(binary_data) == IF binary_data = "file_1" THEN Some(1) ELSE NoneOpt
arm_extab_range(binary_data) == IF binary_data = "file_1" THEN NoneOpt ELSE Some(0)

----------------------------------------------------------------------------
(* Inputs                                                                   *)

\* Two mappings of file_1 and one of file_2 that overlaps the second.
RA1 == Reg(0, 2, FALSE, 0, 1, "file_1")
RA2 == Reg(2, 4, FALSE, 1, 1, "file_1")
RB1 == Reg(3, 5, FALSE, 0, 2, "file_2")
\* The first mapping of file_1 after its protection changed to writable.
RW1 == [RA1 EXCEPT !.is_write = TRUE]
\* A shared mapping of file_1, a mapping with no path, an anonymous mapping,
\* the vdso.
RS1 == Reg(0, 2, TRUE, 0, 1, "file_1")
RE1 == Reg(2, 4, FALSE, 0, 3, "")
RZ1 == Reg(4, 6, FALSE, 0, 0, "[heap]")
RV1 == Reg(6, 8, FALSE, 0, 0, "[vdso]")

Universe == { RA1, RA2, RB1, RS1, RW1 }
FilterUniverse == { RS1, RE1, RZ1, RV1 }

RECURSIVE SeqsUpTo(_, _)
SeqsUpTo(S, n) ==
    IF n = 0 THEN { <<>> }
    ELSE LET shorter == SeqsUpTo(S, n - 1)
         IN  shorter \cup { Append(s, x) : s \in { t \in shorter : Len(t) = n - 1 }, x \in S }

Range(s) == { s[i] : i \in DOMAIN s }

\* All orders in which the elements of a finite set can be iterated.
RECURSIVE Orders(_)
Orders(S) ==
    IF S = {} THEN { <<>> }
    ELSE UNION { { << x >> \o p : p \in Orders(S \ {x}) } : x \in S }

----------------------------------------------------------------------------
(* LoadHandle and the loader callback                                       *)

NewLoadHandle ==
    [binary |-> NoneOpt, debug_binary |-> NoneOpt, symbols |-> <<>>,
     mappings |-> <<>>, load_frame_descriptions |-> TRUE, load_symbols |-> TRUE]

set_binary(handle, data) == [handle EXCEPT !.binary = Some(data)]
set_debug_binary(handle, data) == [handle EXCEPT !.debug_binary = Some(data)]
add_symbols(handle, symbols) == [handle EXCEPT !.symbols = Append(@, symbols)]
add_region_mapping(handle, mapping) == [handle EXCEPT !.mappings = Append(@, mapping)]
should_load_frame_descriptions(handle, value) ==
    [handle EXCEPT !.load_frame_descriptions = value]
should_load_symbols(handle, value) == [handle EXCEPT !.load_symbols = value]

\* is_empty that looks at the binary only.
is_empty_BinaryOnly(handle) == handle.binary = NoneOpt

\* is_empty with the test of the mappings inverted.
is_empty_Inverted(handle) == handle.binary = NoneOpt /\ handle.mappings # <<>>

\* LoadHandle::is_empty
is_empty(handle) == handle.binary = NoneOpt /\ handle.mappings = <<>>

\* What a loader callback may do with the handle it is given.  "load" and
\* "decline" are the two branches of the callback of test_reload.
Callbacks == { "load", "decline" }

RunCallback(kind, region, handle) ==
    LET flagged == should_load_symbols(
                       should_load_frame_descriptions(handle, FALSE), FALSE)
    IN  CASE kind = "load"    -> set_binary(flagged, FileData(region))
          [] kind = "decline" -> flagged
          [] kind = "nothing" -> handle
          [] kind = "load_all" -> set_binary(handle, FileData(region))
          [] kind = "mapping" -> add_region_mapping(handle, LoadHeader(40, region.file_offset))
          [] kind = "debug"   ->
                 add_symbols(set_debug_binary(handle, FileData(region)),
                             [from |-> "debug"])
          [] kind = "symbols" ->
                 add_symbols(add_symbols(set_binary(handle, FileData(region)),
                                         [from |-> "debug"]),
                             [from |-> FileData(region)])

\* The operations of the handle that each callback calls.
CallbackCalls(kind) ==
    CASE kind = "load"     -> { "should_load_frame_descriptions", "should_load_symbols",
                                "set_binary" }
      [] kind = "decline"  -> { "should_load_frame_descriptions", "should_load_symbols" }
      [] kind = "nothing"  -> {}
      [] kind = "load_all" -> { "set_binary" }
      [] kind = "mapping"  -> { "add_region_mapping" }
      [] kind = "debug"    -> { "set_debug_binary", "add_symbols" }
      [] kind = "symbols"  -> { "set_binary", "add_symbols" }

\* Symbols::load_from_binary_data and FrameDescriptions::load
LoadSymbols(binary_data) == [from |-> binary_data]
LoadFrameDescriptions(binary_data) == Some([from |-> binary_data])

----------------------------------------------------------------------------
(* RangeMap                                                                 *)

EmptyMap == [k \in {} |-> 0]
MapRemove(m, k) == [x \in DOMAIN m \ {k} |-> m[x]]
MapInsert(m, k, v) == [x \in DOMAIN m \cup {k} |-> IF x = k THEN v ELSE m[x]]

\* Stable insertion of an entry into a list sorted by range.start.
RECURSIVE InsertByStart(_, _)
InsertByStart(sorted, entry) ==
    IF sorted = <<>> THEN << entry >>
    ELSE IF sorted[Len(sorted)].range.start <= entry.range.start
         THEN Append(sorted, entry)
         ELSE Append(InsertByStart(SubSeq(sorted, 1, Len(sorted) - 1), entry),
                     sorted[Len(sorted)])

RECURSIVE SortByStart(_)
SortByStart(values) ==
    IF values = <<>> THEN <<>>
    ELSE InsertByStart(SortByStart(SubSeq(values, 1, Len(values) - 1)),
                       values[Len(values)])

Disjoint(values) ==
    \A i \in 1..(Len(values) - 1) : values[i].range.end <= values[i + 1].range.start

\* RangeMap::from_vec: the entries sorted by range.start; building a map
\* from overlapping ranges is a violated assertion.
RangeMapFromVec(values) ==
    LET sorted == SortByStart(values)
    IN  [values |-> sorted, ok |-> Disjoint(sorted)]

\* RangeMap::get: the entry whose half-open range contains the address.
RangeMapGet(map, address) ==
    LET hits == { i \in DOMAIN map :
                    map[i].range.start <= address /\ address < map[i].range.end }
    IN  IF hits = {} THEN NoneOpt
        ELSE Some(map[CHOOSE i \in hits : \A j \in hits : i <= j])

----------------------------------------------------------------------------
(* AddressSpace::reload                                                     *)

contains(range, value) == range.start <= value /\ value < range.end

calculate_virtual_addr(region, physical_section_offset) ==
    LET region_range == [start |-> region.file_offset,
                         end |-> region.file_offset + (region.end - region.start)]
    IN  IF contains(region_range, physical_section_offset)
        THEN Some(region.start + physical_section_offset - region.file_offset)
        ELSE NoneOpt

\* Ignored without the exception for the vdso.
Ignored_NoVdso(region) ==
    region.is_shared \/ region.name = "" \/ region.inode = 0

\* The filter at the head of the loop over the new region list.
Ignored(region) ==
    region.is_shared \/ region.name = "" \/ (region.inode = 0 /\ region.name # "[vdso]")

\* First element of a sequence satisfying a file-offset match (iter().find).
FindHeader(headers, file_offset) ==
    LET hits == { i \in DOMAIN headers : headers[i].file_offset = file_offset }
    IN  IF hits = {} THEN NoneOpt
        ELSE Some(headers[CHOOSE i \in hits : \A j \in hits : i <= j])

\* Number of strong references to a binary record: the binary table's, one
\* per live region map entry, and the clones kept outside the manager.
StrongCount(binary, live_regions, outside) ==
    1 + Cardinality({ i \in DOMAIN live_regions : live_regions[i].value.binary = binary })
      + outside

\* Most clones of one record that callers keep at a time.
MaxClones == 2

\* The clones callers keep outside the manager are a map from the
\* allocation to the number of clones kept of it; an allocation of which
\* none is kept is not in the map.
CloneCount(handles, ptr) == IF ptr \in DOMAIN handles THEN handles[ptr] ELSE 0

\* Arc::clone, or Weak::upgrade of a record that is still alive.
WithClone(handles, ptr) == MapInsert(handles, ptr, CloneCount(handles, ptr) + 1)

\* Drop of one clone.
WithoutClone(handles, ptr) ==
    IF CloneCount(handles, ptr) <= 1 THEN MapRemove(handles, ptr)
    ELSE MapInsert(handles, ptr, handles[ptr] - 1)

\* The clones of a record that callers keep outside the manager.
HeldOutside(binary, handles) == CloneCount(handles, binary.ptr)

\* LiveOldRegions with the old region map kept alive across the loop.
LiveOldRegions_Alive(old_region_map) == old_region_map

\* The entries of the old region map that are still alive when the loop over
\* the new list runs: the map is consumed while old_regions is filled.
LiveOldRegions(old_region_map) == <<>>

\* DetachedBinaryMap leaving the old entries in place.
DetachedBinaryMap_Kept(old_binary_map) == old_binary_map

\* Lines 385-386: self.binary_map after it was swapped with an empty map.
DetachedBinaryMap(old_binary_map) == EmptyMap

\* The state of reload when the loop over the new list starts.
ReloadStart(old_binary_map, old_region_map, handles) ==
    [self_binary_map |-> DetachedBinaryMap(old_binary_map),
     old_binary_map |-> old_binary_map,
     live_regions   |-> LiveOldRegions(old_region_map),
     handles        |-> handles,
     old_regions    |-> { old_region_map[i].value.memory_region : i \in DOMAIN old_region_map },
     new_binary_map |-> EmptyMap,
     tried_to_load  |-> {},
     calls          |-> <<>>,
     panic          |-> "none"]

\* TakeOld as a lookup that leaves the binary in the old table.
TakeOld_Keep(old_binary_map, id) == old_binary_map

\* Line 408: old_binary_map.remove( &id ) takes the binary out of the old
\* table.
TakeOld(old_binary_map, id) == MapRemove(old_binary_map, id)

\* ReusedMappings that carries the address mappings of the old record over.
ReusedMappings_Kept(binary) == binary.mappings

\* Line 421: the staging entry of a reused binary starts without address
\* mappings.
ReusedMappings(binary) == <<>>

\* ReusedLoadSymbols that asks for the symbols of a reused binary again.
ReusedLoadSymbols_Again(binary) == TRUE

\* Line 425: the symbols of a reused binary are not loaded again.
ReusedLoadSymbols(binary) == FALSE

\* A binary of the old table is reused: its internals move into staging.
StageOld(st, region, id) ==
    LET binary == st.old_binary_map[id]
    IN  IF StrongCount(binary, st.live_regions, HeldOutside(binary, st.handles)) # 1
        THEN [st EXCEPT !.old_binary_map = TakeOld(@, id), !.panic = "unimplemented"]
        ELSE [st EXCEPT
                !.old_binary_map = TakeOld(@, id),
                !.new_binary_map = MapInsert(@, id,
                    [name |-> region.name,
                     binary_data |-> binary.data,
                     addresses |-> [arm_exidx |-> NoneOpt, arm_extab |-> NoneOpt],
                     load_headers |-> binary.load_headers,
                     mappings |-> ReusedMappings(binary),
                     symbols |-> binary.symbols,
                     frame_descriptions |-> binary.frame_descriptions,
                     regions |-> <<>>,
                     load_symbols |-> ReusedLoadSymbols(binary),
                     load_frame_descriptions |-> FALSE,
                     is_old |-> TRUE])]

\* The loader is the caller's code and runs inside the loop (line 441):
\* besides filling the handle it may, any number of times, drop a clone the
\* caller keeps, clone one, or upgrade a Weak of a record that is still
\* alive, which a record is while the old table holds it or a clone of it
\* is kept.  The result is the clones the caller may keep when the loader
\* returns: any number of each record that is alive.
LoaderHandles(st) ==
    LET alive == DOMAIN st.handles
                    \cup { st.old_binary_map[id].ptr : id \in DOMAIN st.old_binary_map }
    IN  { [ptr \in { a \in alive : kept[a] > 0 } |-> kept[ptr]] :
            kept \in [alive -> 0..MaxClones] }

\* The loader is asked for a binary not seen before; callback is what it
\* does with the handle, handles the clones the caller keeps when it
\* returns.
StageNew(st, region, id, callback, handles) ==
    LET handle == RunCallback(callback, region, NewLoadHandle)
        asked  == [st EXCEPT !.tried_to_load = @ \cup {id},
                             !.handles = handles,
                             !.calls = Append(@, [region |-> region, callback |-> callback])]
    IN  IF is_empty(handle) THEN asked
        ELSE [asked EXCEPT
                !.new_binary_map = MapInsert(@, id,
                    [name |-> region.name,
                     binary_data |-> handle.binary,
                     addresses |-> [arm_exidx |-> NoneOpt, arm_extab |-> NoneOpt],
                     load_headers |-> IF handle.binary # NoneOpt
                                      THEN load_headers(handle.binary[1])
                                      ELSE handle.mappings,
                     mappings |-> <<>>,
                     symbols |-> handle.symbols,
                     frame_descriptions |-> NoneOpt,
                     regions |-> <<>>,
                     load_symbols |-> handle.load_symbols,
                     load_frame_descriptions |-> handle.load_frame_descriptions,
                     is_old |-> FALSE])]

\* Stage without the tried_to_load set.
Stage_AskAgain(st, region, id, callbacks) ==
    IF id \in DOMAIN st.new_binary_map THEN { st }
    ELSE IF id \in DOMAIN st.old_binary_map THEN { StageOld(st, region, id) }
    ELSE { StageNew(st, region, id, callback, handles) :
             callback \in callbacks, handles \in LoaderHandles(st) }

\* Lines 407-466: make sure the identity of the region is staged.  The
\* result is the set of states the loader's possible answers lead to.
Stage(st, region, id, callbacks) ==
    IF id \in DOMAIN st.new_binary_map THEN { st }
    ELSE IF id \in DOMAIN st.old_binary_map THEN { StageOld(st, region, id) }
    ELSE IF id \notin st.tried_to_load
         THEN { StageNew(st, region, id, callback, handles) :
                  callback \in callbacks, handles \in LoaderHandles(st) }
         ELSE { st }

\* The section! macro: resolve a section address once.
Section(output_addr, binary_data, section_range, region) ==
    IF output_addr # NoneOpt \/ binary_data = NoneOpt \/ section_range = NoneOpt
    THEN output_addr
    ELSE LET addr == calculate_virtual_addr(region, section_range[1])
         IN  IF addr # NoneOpt THEN addr ELSE output_addr

\* Line 468: a region is new when it cannot be removed from old_regions.
IsNewRegion(old_regions, region) == region \notin old_regions

\* PushRegion that replaces the regions recorded so far.
PushRegion_Last(data_regions, region, is_new) == << << region, is_new >> >>

\* Line 505: every attached region is recorded with its is_new flag.
PushRegion(data_regions, region, is_new) == Append(data_regions, << region, is_new >>)

\* Lines 468-505: attach the region to its staged binary.
Attach(st, region, id) ==
    LET is_new == IsNewRegion(st.old_regions, region)
        data   == st.new_binary_map[id]
        header == FindHeader(data.load_headers, region.file_offset)
        mappings == IF header # NoneOpt
                    THEN Append(data.mappings,
                                [declared_address |-> header[1].address,
                                 actual_address |-> region.start,
                                 file_offset |-> header[1].file_offset,
                                 size |-> region.end - region.start])
                    ELSE data.mappings
        exidx == Section(data.addresses.arm_exidx, data.binary_data,
                         IF data.binary_data = NoneOpt THEN NoneOpt
                         ELSE arm_exidx_range(data.binary_data[1]), region)
        extab == Section(data.addresses.arm_extab, data.binary_data,
                         IF data.binary_data = NoneOpt THEN NoneOpt
                         ELSE arm_extab_range(data.binary_data[1]), region)
    IN  [st EXCEPT
           !.old_regions = @ \ {region},
           !.new_binary_map = MapInsert(@, id,
               [data EXCEPT !.mappings = mappings,
                            !.addresses = [arm_exidx |-> exidx, arm_extab |-> extab],
                            !.regions = PushRegion(@, region, is_new)])]

\* One iteration of the loop over the new region list, from one state.
ReloadRegion(st, region, callbacks) ==
    IF st.panic # "none" \/ Ignored(region) THEN { st }
    ELSE LET id == BinaryId(region)
         IN  { IF staged.panic # "none" \/ id \notin DOMAIN staged.new_binary_map
               THEN staged
               ELSE Attach(staged, region, id) :
               staged \in Stage(st, region, id, callbacks) }

\* The loop over the new region list: the states it can end in.
RECURSIVE ReloadLoop(_, _, _)
ReloadLoop(st, new_regions, callbacks) ==
    IF new_regions = <<>> THEN { st }
    ELSE UNION { ReloadRegion(prev, new_regions[Len(new_regions)], callbacks) :
                 prev \in ReloadLoop(st, SubSeq(new_regions, 1, Len(new_regions) - 1),
                                     callbacks) }

\* BinaryId::to_inode
to_inode(id) ==
    IF id.inode = 0 THEN NoneOpt
    ELSE Some([inode |-> id.inode, dev_major |-> id.dev_major, dev_minor |-> id.dev_minor])

\* The allocation a record lives in.  Arc::new is called once per staged
\* identity in a reload, so the identity names the allocation; clone is
\* the number of a copy made of the record instead of a shared reference.
Allocation(id) == [id |-> id, clone |-> 0]

\* Lines 514-543: the frozen record of one staged binary.
NewBinary(id, data) ==
    [ptr |-> Allocation(id),
     name |-> data.name,
     data |-> data.binary_data,
     virtual_addresses |-> data.addresses,
     load_headers |-> data.load_headers,
     mappings |-> data.mappings,
     symbols |-> IF data.load_symbols /\ data.symbols = <<>> /\ data.binary_data # NoneOpt
                 THEN << LoadSymbols(data.binary_data[1]) >>
                 ELSE data.symbols,
     frame_descriptions |->
         IF data.frame_descriptions # NoneOpt THEN data.frame_descriptions
         ELSE IF data.load_frame_descriptions /\ data.binary_data # NoneOpt
              THEN LoadFrameDescriptions(data.binary_data[1])
              ELSE NoneOpt]

\* RegionEntries with a range that covers only the first address.
RegionEntries_FirstAddressOnly(binary, data_regions) ==
    [i \in DOMAIN data_regions |->
        [range |-> [start |-> data_regions[i][1].start, end |-> data_regions[i][1].start + 1],
         value |-> [binary |-> binary, memory_region |-> data_regions[i][1]]]]

\* RegionEntries with a copy of the record in each entry instead of a
\* shared reference.
RegionEntries_Copies(binary, data_regions) ==
    [i \in DOMAIN data_regions |->
        [range |-> [start |-> data_regions[i][1].start, end |-> data_regions[i][1].end],
         value |-> [binary |-> [binary EXCEPT !.ptr.clone = i],
                    memory_region |-> data_regions[i][1]]]]

\* Lines 545-558: the region map entries of one staged binary.
RegionEntries(binary, data_regions) ==
    [i \in DOMAIN data_regions |->
        [range |-> [start |-> data_regions[i][1].start, end |-> data_regions[i][1].end],
         value |-> [binary |-> binary, memory_region |-> data_regions[i][1]]]]

\* NewlyMapped without the is_new test.
NewlyMapped_All(data_regions) == [i \in DOMAIN data_regions |-> data_regions[i]]

\* The regions of one staged binary that were not in the old region map.
NewlyMapped(data_regions) ==
    SelectSeq([i \in DOMAIN data_regions |-> data_regions[i]], LAMBDA e : e[2])

RegionsOf(pairs) == [i \in DOMAIN pairs |-> pairs[i][1]]

\* ReportedAsMapped without the is_old test.
ReportedAsMapped_Always(data) == TRUE

\* Whether a staged binary is reported in binaries_mapped.
ReportedAsMapped(data) == ~data.is_old

\* Lines 508-561: promote the staged binaries in the iteration order of
\* new_binary_map.
RECURSIVE Promote(_, _, _)
Promote(self_binary_map, new_binary_map, order) ==
    IF order = <<>>
    THEN [binary_map |-> self_binary_map, new_regions |-> <<>>,
          binaries_mapped |-> <<>>, regions_mapped |-> <<>>]
    ELSE LET rest == Promote(self_binary_map, new_binary_map,
                             SubSeq(order, 1, Len(order) - 1))
             id == order[Len(order)]
             data == new_binary_map[id]
             binary == NewBinary(id, data)
         IN  [binary_map |-> MapInsert(rest.binary_map, id, binary),
              new_regions |-> rest.new_regions \o RegionEntries(binary, data.regions),
              binaries_mapped |->
                  IF ReportedAsMapped(data)
                  THEN Append(rest.binaries_mapped,
                              [inode |-> to_inode(id), name |-> data.name,
                               data |-> data.binary_data])
                  ELSE rest.binaries_mapped,
              regions_mapped |->
                  rest.regions_mapped \o RegionsOf(NewlyMapped(data.regions))]

\* Lines 567-569: what is left of the old binary table.
BinariesUnmapped(old_binary_map, order) ==
    [i \in DOMAIN order |->
        [inode |-> to_inode(order[i]), name |-> old_binary_map[order[i]].name]]

\* Line 571: what is left of the old regions, as ranges.
RegionsUnmapped(order) ==
    [i \in DOMAIN order |-> [start |-> order[i].start, end |-> order[i].end]]

----------------------------------------------------------------------------
(* State                                                                    *)

VARIABLES
    binary_map,      \* AddressSpace::binary_map
    regions,         \* AddressSpace::regions, the entries of the RangeMap
    panicked,        \* "none", or the assertion that aborted the program
    reloaded,        \* the Reloaded returned by the last reload
    last_regions,    \* the region list of the last reload
    try_load_calls,  \* the regions try_load was invoked with in the last reload
    before,          \* binary table keys and region map at the start of the last reload
    panic_on_partial_backtrace,  \* AddressSpace::panic_on_partial_backtrace
    output,          \* the caller's Vec<UserFrame> handed to unwind
    held,            \* the clones of records of the table that callers keep:
                     \* allocation -> number of clones
    unwound,         \* the last call of unwind: the stack pointer, the instruction
                     \* pointer if it was read, the steps run, whether output held frames
    memory_read,     \* the last primitive read through a Memory view
    translation,     \* a call of translate_address: its inputs and its result
    decoded,         \* the last call of decode_symbol_while and the frames visited
    earlier          \* what the reload before the last one declined and unmapped

vars == << binary_map, regions, panicked, reloaded, last_regions, try_load_calls, before,
           panic_on_partial_backtrace, output, held, unwound, memory_read, translation,
           decoded, earlier >>

reload_vars == << binary_map, regions, reloaded, last_regions, try_load_calls, before,
                  earlier >>

unwind_vars == << panic_on_partial_backtrace, output, unwound >>

query_vars == << memory_read, translation, decoded >>

EmptyReloaded ==
    [binaries_unmapped |-> <<>>, binaries_mapped |-> <<>>,
     regions_unmapped |-> <<>>, regions_mapped |-> <<>>]

\* AddressSpace::new, before any call.
InitManager ==
    /\ binary_map = EmptyMap
    /\ regions = <<>>
    /\ panicked = "none"
    /\ reloaded = EmptyReloaded
    /\ last_regions = <<>>
    /\ try_load_calls = <<>>
    /\ before = [binary_ids |-> {}, regions |-> {}, held |-> EmptyMap]
    /\ panic_on_partial_backtrace = FALSE
    /\ output = <<>>
    /\ held = EmptyMap
    /\ unwound = NoneOpt
    /\ memory_read = NoneOpt
    /\ decoded = NoneOpt
    /\ earlier = [declined |-> {}, unmapped |-> {}]

Init ==
    /\ InitManager
    /\ translation = NoneOpt

\* The binary table keys and the memory regions of the region map on entry
\* to reload (old_binary_map and old_regions as first filled).
Snapshot ==
    [binary_ids |-> DOMAIN binary_map,
     regions |-> { regions[i].value.memory_region : i \in DOMAIN regions },
     held |-> held]

\* reload aborts: the fields are left as the panic found them and nothing
\* is returned.
ReloadAborts(why, list, st, new_binary_map, new_regions) ==
    /\ panicked' = why
    /\ binary_map' = new_binary_map
    /\ regions' = new_regions
    /\ reloaded' = reloaded
    /\ last_regions' = list
    /\ try_load_calls' = st.calls
    /\ before' = Snapshot
    \* the clones the caller kept when the panic was raised
    /\ held' = st.handles

\* Lines 563-574, given the promoted binaries.
ReloadFinish(list, st, promoted) ==
    \E built \in { RangeMapFromVec(promoted.new_regions) } :
    \E new_region_count \in { Len(promoted.new_regions) } :
    \E old_region_count \in { Cardinality(Snapshot.regions) } :
        IF ~built.ok
        THEN ReloadAborts("range_map", list, st, promoted.binary_map, <<>>)
        ELSE IF new_region_count # Len(built.values)
        THEN ReloadAborts("region_count", list, st, promoted.binary_map, built.values)
        ELSE \E gone \in Orders(DOMAIN st.old_binary_map), left \in Orders(st.old_regions) :
             \E delta \in { [binaries_unmapped |-> BinariesUnmapped(st.old_binary_map, gone),
                             binaries_mapped |-> promoted.binaries_mapped,
                             regions_unmapped |-> RegionsUnmapped(left),
                             regions_mapped |-> promoted.regions_mapped] } :
                 IF new_region_count - old_region_count
                      # Len(delta.regions_mapped) - Len(delta.regions_unmapped)
                 THEN ReloadAborts("delta", list, st, promoted.binary_map, built.values)
                 ELSE /\ panicked' = "none"
                      /\ binary_map' = promoted.binary_map
                      /\ regions' = built.values
                      /\ reloaded' = delta
                      /\ last_regions' = list
                      /\ try_load_calls' = st.calls
                      /\ before' = Snapshot
                      \* every record of the table is a new allocation: a
                      \* clone a caller still keeps is of a record that has
                      \* left the table
                      /\ held' = EmptyMap

\* AddressSpace::reload with a region list over a universe of regions and a
\* loader that answers each call with one of the given callbacks.
Reload(universe_lists, callbacks) ==
    /\ panicked = "none"
    /\ UNCHANGED << unwind_vars, translation >>
    \* a Memory view and the frames handed to a visitor borrow the region
    \* map: none is alive across a reload
    /\ memory_read' = NoneOpt
    /\ decoded' = NoneOpt
    /\ \E list \in universe_lists :
       \E st \in ReloadLoop(ReloadStart(binary_map, regions, held), list, callbacks) :
          IF st.panic # "none"
          THEN ReloadAborts(st.panic, list, st, st.self_binary_map, <<>>)
          ELSE \E order \in Orders(DOMAIN st.new_binary_map) :
               \E promoted \in { Promote(st.self_binary_map, st.new_binary_map, order) } :
                  ReloadFinish(list, st, promoted)

RegionLists == SeqsUpTo(Universe, MaxRegions)

ReloadAny == Reload(RegionLists, Callbacks) /\ UNCHANGED earlier

Next == ReloadAny

Spec == Init /\ [][Next]_vars

FilterLists == SeqsUpTo(FilterUniverse, MaxRegions)

ReloadFiltered == Reload(FilterLists, Callbacks) /\ UNCHANGED earlier

NextFilter == ReloadFiltered

SpecFilter == Init /\ [][NextFilter]_vars

----------------------------------------------------------------------------
(* Memory: the view of the stack snapshot and the region map that one       *)
(* unwind reads through                                                     *)

\* BinaryData::as_bytes: the raw bytes of the two object files.
as_bytes(binary_data) ==
    IF binary_data = "file_1"
    THEN << 187, 1, 2, 3, 4, 5, 6, 7, 8 >>
    ELSE << 9, 10, 11, 12, 13 >>

\* The primitives a view reads, and mem::size_of of each.
Primitives == { "u32", "u64" }
size_of(V) == IF V = "u32" THEN 4 ELSE 8

Endiannesses == { "LittleEndian", "BigEndian" }

Reverse(seq) == [i \in 1..Len(seq) |-> seq[Len(seq) + 1 - i]]

\* Primitive::read_from_slice.  A value is written as its bytes, most
\* significant first.
read_from_slice(endianness, slice) ==
    IF endianness = "LittleEndian" THEN Reverse(slice) ELSE slice

\* BufferReader::get_u32_at_offset and get_u64_at_offset of the stack
\* snapshot: a miss unless the whole primitive lies inside the buffer.
get_at_offset(buffer, V, endianness, offset) ==
    IF offset + size_of(V) <= Len(buffer)
    THEN Some(read_from_slice(endianness, SubSeq(buffer, offset + 1, offset + size_of(V))))
    ELSE NoneOpt

\* Primitive::read_from_buffer
read_from_buffer(V, buffer, endianness, offset) ==
    get_at_offset(buffer, V, endianness, offset)

\* Lines 178-184: the read the stack snapshot serves, if any.
FromStack(stack_address, stack, V, endianness, address) ==
    IF address >= stack_address
    THEN read_from_buffer(V, stack, endianness, address - stack_address)
    ELSE NoneOpt

\* Lines 186-194: the read served by the region map.  Indexing the bytes
\* of the binary past their end is a panic.
FromRegions(region_map, V, endianness, address) ==
    LET hit == RangeMapGet(region_map, address)
    IN  IF hit = NoneOpt THEN [value |-> NoneOpt, panic |-> "none"]
        ELSE LET offset == hit[1].value.memory_region.file_offset
                               + (address - hit[1].range.start)
                 data == hit[1].value.binary.data
             IN  IF data = NoneOpt THEN [value |-> NoneOpt, panic |-> "none"]
                 ELSE IF offset + size_of(V) > Len(as_bytes(data[1]))
                 THEN [value |-> NoneOpt, panic |-> "slice_index"]
                 ELSE [value |-> Some(read_from_slice(endianness,
                                    SubSeq(as_bytes(data[1]), offset + 1,
                                           offset + size_of(V)))),
                       panic |-> "none"]

\* get_value_at_address that asks the region map before the stack.
get_value_at_address_RegionsFirst(region_map, stack_address, stack, V, endianness, address) ==
    LET from_regions == FromRegions(region_map, V, endianness, address)
    IN  IF from_regions.value # NoneOpt \/ from_regions.panic # "none"
        THEN from_regions
        ELSE [value |-> FromStack(stack_address, stack, V, endianness, address),
              panic |-> "none"]

\* Memory::get_value_at_address
get_value_at_address(region_map, stack_address, stack, V, endianness, address) ==
    LET from_stack == FromStack(stack_address, stack, V, endianness, address)
    IN  IF from_stack # NoneOpt
        THEN [value |-> from_stack, panic |-> "none"]
        ELSE FromRegions(region_map, V, endianness, address)

----------------------------------------------------------------------------
(* AddressSpace::unwind                                                     *)

\* Most frames one unwind records (the frame-count guard of the
\* architecture step).
MaxFrames == 3

\* Instruction pointers: inside RA1, inside RB1, outside every region.
InstructionPointers == { 1, 4, 7 }

\* A::get_stack_pointer( dwarf_regs )
StackPointers == { NoneOpt, Some(6) }

\* Lines 585-589: the view one unwind reads through.
Memory(region_map, stack, stack_address) ==
    [regions |-> region_map, stack |-> stack, stack_address |-> stack_address]

\* The stack snapshot handed to unwind: one machine word.
UnwindStacks == { << 170, 31, 32, 33, 34, 35, 36, 37 >> }

\* Where an architecture step reads the word it recovers the caller from:
\* the first word of the snapshot, an address past the last full word of
\* the snapshot, and an address inside RB1 less than a word before the end
\* of the bytes of file_2.
UnwindReads == { 6, 7, 4 }

\* UnwindContext::current_initial_address: the entry of the function the
\* instruction pointer is in.  Functions start at the even addresses.
current_initial_address(address) == address - (address % 2)

\* Lines 598-601
UserFrame(address) ==
    [address |-> address, initial_address |-> current_initial_address(address)]

\* UnwindContext::unwind, one architecture step.  It reports no further
\* frame when no region covers the current instruction pointer or the
\* chain of callers ends; otherwise it reads a word through the view and
\* reports a further frame unless the read misses.  The read is
\* Memory::get_value_at_address, whose panic ends the step.
StepOutcome(memory, address, callers, read) ==
    IF RangeMapGet(memory.regions, address) = NoneOpt \/ callers = <<>>
    THEN "none"
    ELSE LET word == get_value_at_address(memory.regions, memory.stack_address,
                                          memory.stack, "u64", "LittleEndian", read)
         IN  IF word.panic # "none" THEN word.panic
             ELSE IF word.value = NoneOpt THEN "none"
             ELSE "further"

StepReportsFrame(memory, address, callers, read) ==
    StepOutcome(memory, address, callers, read) = "further"

\* UnwindLoop that records a frame only after a step reported it.
RECURSIVE UnwindLoop_StepFirst(_, _, _, _)
UnwindLoop_StepFirst(memory, address, callers, read) ==
    IF ~StepReportsFrame(memory, address, callers, read)
    THEN <<>>
    ELSE << UserFrame(address) >> \o
         UnwindLoop_StepFirst(memory, callers[1], Tail(callers), read)

\* The frames pushed by the loop of unwind: the initial instruction pointer,
\* then the caller recovered by each architecture step that reports a
\* further frame.
RECURSIVE UnwindLoop(_, _, _, _)
UnwindLoop(memory, address, callers, read) ==
    << UserFrame(address) >> \o
    ( IF ~StepReportsFrame(memory, address, callers, read)
      THEN <<>>
      ELSE UnwindLoop(memory, callers[1], Tail(callers), read) )

\* The architecture steps the loop runs, as the answers they gave: whether
\* there is a further frame, and its address.  A step that panics gave no
\* answer.
RECURSIVE StepsRun(_, _, _, _)
StepsRun(memory, address, callers, read) ==
    IF ~StepReportsFrame(memory, address, callers, read)
    THEN << [further |-> FALSE, address |-> NoneOpt] >>
    ELSE << [further |-> TRUE, address |-> Some(callers[1])] >>
         \o StepsRun(memory, callers[1], Tail(callers), read)

\* The panic that ended the loop, if one did.
RECURSIVE LoopPanic(_, _, _, _)
LoopPanic(memory, address, callers, read) ==
    IF StepReportsFrame(memory, address, callers, read)
    THEN LoopPanic(memory, callers[1], Tail(callers), read)
    ELSE IF StepOutcome(memory, address, callers, read) = "none" THEN "none"
    ELSE StepOutcome(memory, address, callers, read)

\* Whether the loop stopped before the chain of callers ended.
IsPartial(region_map, frames, callers) == Len(frames) < 1 + Len(callers)

CallerChains == SeqsUpTo(InstructionPointers, MaxFrames - 1)

\* ClearedOutput that leaves the frames of an earlier unwind in place.
ClearedOutput_Kept(out) == out

\* Line 578: output.clear()
ClearedOutput(out) == <<>>

unwind ==
    /\ panicked = "none"
    /\ UNCHANGED << reload_vars, panic_on_partial_backtrace, held, query_vars >>
    /\ \E sp \in StackPointers, ip \in InstructionPointers, callers \in CallerChains,
          stack \in UnwindStacks, read \in UnwindReads :
       \E cleared \in { ClearedOutput(output) } :
          IF sp = NoneOpt
          THEN /\ output' = cleared
               /\ panicked' = panicked
               /\ unwound' = Some([sp |-> sp, ip |-> NoneOpt, steps |-> <<>>,
                                   had_frames |-> output # <<>>])
          ELSE \E memory \in { Memory(regions, stack, sp[1]) } :
               \E frames \in { UnwindLoop(memory, ip, callers, read) } :
               \E panic \in { LoopPanic(memory, ip, callers, read) } :
               /\ output' = cleared \o frames
               /\ unwound' = Some([sp |-> sp, ip |-> Some(ip),
                                   steps |-> StepsRun(memory, ip, callers, read),
                                   had_frames |-> output # <<>>])
               /\ IF panic # "none"
                  THEN panicked' = panic
                  ELSE IF panic_on_partial_backtrace /\ IsPartial(regions, frames, callers)
                  THEN panicked' = "partial_backtrace"
                  ELSE panicked' = panicked

set_panic_on_partial_backtrace ==
    /\ panicked = "none"
    /\ \E value \in BOOLEAN : panic_on_partial_backtrace' = value
    /\ UNCHANGED << reload_vars, panicked, output, unwound, held, query_vars >>

UnwindUniverse == { RA1, RB1 }

UnwindLists == SeqsUpTo(UnwindUniverse, MaxRegions)

ReloadFew == Reload(UnwindLists, Callbacks) /\ UNCHANGED earlier

NextUnwind == ReloadFew \/ unwind \/ set_panic_on_partial_backtrace

SpecUnwind == Init /\ [][NextUnwind]_vars

----------------------------------------------------------------------------
(* Handles kept by callers                                                  *)

\* A caller clones the handle of a region (BinaryRegion::binary) and keeps
\* the clone.
clone_handle ==
    /\ panicked = "none"
    /\ \E i \in DOMAIN regions :
          /\ CloneCount(held, regions[i].value.binary.ptr) < MaxClones
          /\ held' = WithClone(held, regions[i].value.binary.ptr)
    /\ UNCHANGED << reload_vars, unwind_vars, panicked, query_vars >>

\* A caller drops a clone it kept.
drop_handle ==
    /\ panicked = "none"
    /\ \E handle \in DOMAIN held : held' = WithoutClone(held, handle)
    /\ UNCHANGED << reload_vars, unwind_vars, panicked, query_vars >>

NextHandles == ReloadFew \/ unwind \/ clone_handle \/ drop_handle

SpecHandles == Init /\ [][NextHandles]_vars

----------------------------------------------------------------------------
(* Reads through a Memory view over the current region map                  *)

\* Stack snapshots: one that holds a u32 at offsets 0 and 1, and one that
\* holds a u64 at offset 0.
Stacks == { << 170, 21, 22, 23, 24 >>, << 170, 31, 32, 33, 34, 35, 36, 37 >> }

\* Where byte 0 of the snapshot lives: inside RA1, or inside RA2.
StackAddresses == { 1, 3 }

ReadAddresses == 0..MaxAddress

\* One primitive read through the view of an unwind over the current
\* region map.
ReadMemory ==
    /\ panicked = "none"
    /\ UNCHANGED << reload_vars, unwind_vars, held, translation, decoded >>
    /\ \E stack_address \in StackAddresses, stack \in Stacks, V \in Primitives,
          endianness \in Endiannesses, address \in ReadAddresses :
       \E result \in { get_value_at_address(regions, stack_address, stack, V,
                                             endianness, address) } :
          /\ memory_read' = Some([stack_address |-> stack_address, stack |-> stack,
                                   V |-> V, endianness |-> endianness,
                                   address |-> address, value |-> result.value])
          /\ panicked' = result.panic

\* The loader of the Memory specification: a binary with its bytes, or a
\* binary known only by a load header.
MemoryCallbacks == { "load", "mapping" }

\* The two mappings of file_1.
MemoryUniverse == { RA1, RA2 }

MemoryLists == SeqsUpTo(MemoryUniverse, MaxRegions)

ReloadMemory == Reload(MemoryLists, MemoryCallbacks) /\ UNCHANGED earlier

NextMemory == ReloadMemory \/ ReadMemory

SpecMemory == Init /\ [][NextMemory]_vars

----------------------------------------------------------------------------
(* translate_address                                                        *)

\* Longest list of address mappings handed to translate_address.
MaxMappings == 2

AddressMapping(declared_address, actual_address, size) ==
    [declared_address |-> declared_address, actual_address |-> actual_address,
     file_offset |-> 0, size |-> size]

\* Whether a mapping covers an address: the test of the find in line 22.
Covers(mapping, address) ==
    address >= mapping.actual_address
        /\ address < mapping.actual_address + mapping.size

\* translate_address that does not add the declared address.
translate_address_OffsetOnly(mappings, address) ==
    LET hits == { i \in DOMAIN mappings : Covers(mappings[i], address) }
    IN  IF hits = {} THEN address
        ELSE LET mapping == mappings[CHOOSE i \in hits : \A j \in hits : i <= j]
             IN  address - mapping.actual_address

\* translate_address that takes the last mapping covering the address.
translate_address_Last(mappings, address) ==
    LET hits == { i \in DOMAIN mappings : Covers(mappings[i], address) }
    IN  IF hits = {} THEN address
        ELSE LET mapping == mappings[CHOOSE i \in hits : \A j \in hits : i >= j]
             IN  address - mapping.actual_address + mapping.declared_address

\* translate_address: iter().find takes the first mapping covering the
\* address.
translate_address(mappings, address) ==
    LET hits == { i \in DOMAIN mappings : Covers(mappings[i], address) }
    IN  IF hits = {} THEN address
        ELSE LET mapping == mappings[CHOOSE i \in hits : \A j \in hits : i <= j]
             IN  address - mapping.actual_address + mapping.declared_address

\* A segment declared inside the range it is loaded at, a segment loaded
\* inside the first one, and a segment declared above every address.
MappingUniverse ==
    { AddressMapping(2, 0, 4), AddressMapping(10, 2, 2), AddressMapping(20, 1, 3) }

MappingLists == SeqsUpTo(MappingUniverse, MaxMappings)

\* The inputs of a translation: any list of mappings, any address.
InitTranslate ==
    /\ InitManager
    /\ \E mappings \in MappingLists, address \in 0..MaxAddress :
          translation = Some([mappings |-> mappings, address |-> address,
                              relative |-> NoneOpt, twice |-> NoneOpt])

\* translate_address( mappings, address )
TranslateAddress ==
    /\ translation # NoneOpt
    /\ translation[1].relative = NoneOpt
    /\ translation' = Some([translation[1] EXCEPT !.relative =
                                Some(translate_address(translation[1].mappings,
                                                       translation[1].address))])
    /\ UNCHANGED << reload_vars, unwind_vars, held, panicked, memory_read, decoded >>

\* translate_address applied to the address it returned.
TranslateAgain ==
    /\ translation # NoneOpt
    /\ translation[1].relative # NoneOpt
    /\ translation[1].twice = NoneOpt
    /\ translation' = Some([translation[1] EXCEPT !.twice =
                                Some(translate_address(translation[1].mappings,
                                                       translation[1].relative[1]))])
    /\ UNCHANGED << reload_vars, unwind_vars, held, panicked, memory_read, decoded >>

NextTranslate == TranslateAddress \/ TranslateAgain

SpecTranslate == InitTranslate /\ [][NextTranslate]_vars

----------------------------------------------------------------------------
(* decode_symbol_while                                                      *)

\* Symbols::get_symbol: the symbol of a table that covers a relative
\* address.  The table of file_1 has _Z3fooi at 10..12, the table of
\* file_2 has bar at 30..31, the debug table has main at 11..12.
get_symbol(symbols, relative_address) ==
    CASE symbols.from = "file_1" /\ relative_address \in 10..11 ->
             Some(<< [start |-> 10, end |-> 12], "_Z3fooi" >>)
      [] symbols.from = "file_2" /\ relative_address = 30 ->
             Some(<< [start |-> 30, end |-> 31], "bar" >>)
      [] symbols.from = "debug" /\ relative_address = 11 ->
             Some(<< [start |-> 11, end |-> 12], "main" >>)
      [] OTHER -> NoneOpt

\* cpp_demangle: the demangled form of an Itanium-mangled name.
Demangle(symbol) == IF symbol = "_Z3fooi" THEN Some("foo(int)") ELSE NoneOpt

Frame(absolute_address, relative_address, name, demangled_name) ==
    [absolute_address |-> absolute_address, relative_address |-> relative_address,
     name |-> name, demangled_name |-> demangled_name,
     file |-> NoneOpt, line |-> NoneOpt, column |-> NoneOpt, is_inline |-> FALSE]

\* Lines 109-122: the first table, in registration order, that has a
\* symbol at the relative address.
FirstSymbol(tables, relative_address) ==
    LET hits == { i \in DOMAIN tables : get_symbol(tables[i], relative_address) # NoneOpt }
    IN  IF hits = {} THEN NoneOpt
        ELSE Some(get_symbol(tables[CHOOSE i \in hits : \A j \in hits : i <= j],
                             relative_address)[1][2])

\* Binary_decode_symbol_while that hands a frame to the callback only when
\* a table has a symbol for it.
Binary_decode_symbol_while_OnlyNamed(binary, address) ==
    LET relative_address == translate_address(binary.mappings, address)
        symbol == FirstSymbol(binary.symbols, relative_address)
    IN  IF symbol = NoneOpt THEN <<>>
        ELSE << Frame(address, relative_address, symbol, Demangle(symbol[1])) >>

\* Binary::decode_symbol_while: the frames the callback is invoked with.
Binary_decode_symbol_while(binary, address) ==
    LET relative_address == translate_address(binary.mappings, address)
        symbol == FirstSymbol(binary.symbols, relative_address)
    IN  IF symbol = NoneOpt
        THEN << Frame(address, relative_address, NoneOpt, NoneOpt) >>
        ELSE << Frame(address, relative_address, symbol, Demangle(symbol[1])) >>

\* AddressSpace::decode_symbol_while: the frames the callback is invoked
\* with.
AddressSpace_decode_symbol_while(region_map, address) ==
    LET region == RangeMapGet(region_map, address)
    IN  IF region # NoneOpt
        THEN Binary_decode_symbol_while(region[1].value.binary, address)
        ELSE << Frame(address, address, NoneOpt, NoneOpt) >>

\* decode_symbol_while( address, callback ) with a callback that answers
\* visitor_returns.
decode_symbol_while ==
    /\ panicked = "none"
    /\ UNCHANGED << reload_vars, unwind_vars, held, panicked, memory_read, translation >>
    /\ \E address \in 0..MaxAddress, visitor_returns \in BOOLEAN :
          decoded' = Some([address |-> address, visitor_returns |-> visitor_returns,
                           frames |-> AddressSpace_decode_symbol_while(regions, address)])

\* Loaders: the binary with the symbols of the file, the binary with a
\* debug table registered before the table of the file, the binary without
\* symbols.
SymbolCallbacks == { "load_all", "symbols", "load" }

ReloadSymbols == Reload(UnwindLists, SymbolCallbacks) /\ UNCHANGED earlier

NextSymbols == ReloadSymbols \/ decode_symbol_while

SpecSymbols == Init /\ [][NextSymbols]_vars

----------------------------------------------------------------------------
(* Loaders of every kind                                                    *)

LoaderCallbacks == { "nothing", "decline", "debug", "load", "mapping", "load_all" }

\* A mapping of file_1 and a mapping of file_2.
LoaderUniverse == { RA1, RB1 }

LoaderLists == SeqsUpTo(LoaderUniverse, MaxRegions)

ReloadLoader == Reload(LoaderLists, LoaderCallbacks) /\ UNCHANGED earlier

NextLoader == ReloadLoader

SpecLoader == Init /\ [][NextLoader]_vars

----------------------------------------------------------------------------
(* Reloads with the reload before them on record                            *)

\* The identities for which the loader left the handle empty, among the
\* calls of one reload.
DeclinedIn(calls) ==
    { BinaryId(calls[i].region) :
        i \in { j \in DOMAIN calls :
                   is_empty(RunCallback(calls[j].callback, calls[j].region, NewLoadHandle)) } }

\* reload, keeping on record what the reload before it declined and which
\* binaries that one reported as unmapped.
ReloadHistory ==
    /\ Reload(UnwindLists, Callbacks)
    /\ earlier' = [declined |-> DeclinedIn(try_load_calls),
                   unmapped |-> Range(reloaded.binaries_unmapped)]

NextHistory == ReloadHistory

SpecHistory == Init /\ [][NextHistory]_vars

----------------------------------------------------------------------------
(* Properties                                                               *)

Addresses == 0..MaxAddress

\* The filter as the specification states it.
FilteredOut(region) ==
    \/ region.is_shared
    \/ region.name = ""
    \/ (region.inode = 0 /\ region.name # "[vdso]")

\* A callback that calls neither set_binary nor add_region_mapping leaves
\* the handle empty.
Declines(callback) == callback \in { "decline", "nothing", "debug" }

\* The identities the loader declined in the last reload.
DeclinedIds ==
    { BinaryId(try_load_calls[i].region) :
        i \in { j \in DOMAIN try_load_calls : Declines(try_load_calls[j].callback) } }

\* A region of the last list is admitted when it is neither filtered out
\* nor of an identity the loader declined.
Admitted(region) == ~FilteredOut(region) /\ BinaryId(region) \notin DeclinedIds

AdmittedPositions == { i \in DOMAIN last_regions : Admitted(last_regions[i]) }
AdmittedRegions == { last_regions[i] : i \in AdmittedPositions }
MappedRegions == { regions[i].value.memory_region : i \in DOMAIN regions }

\* The admitted regions of the last list are pairwise distinct and disjoint.
AdmittedDisjoint ==
    \A i, j \in AdmittedPositions :
        i # j => \/ last_regions[i].end <= last_regions[j].start
                 \/ last_regions[j].end <= last_regions[i].start

\* The identity a delta entry (inode, name, ...) stands for.
EntryId(entry) ==
    IF entry.inode = NoneOpt
    THEN [inode |-> 0, dev_major |-> 0, dev_minor |-> 0, name |-> entry.name]
    ELSE [inode |-> entry.inode[1].inode, dev_major |-> entry.inode[1].dev_major,
          dev_minor |-> entry.inode[1].dev_minor, name |-> ""]

\* C1: after a reload, every address of every admitted region of the last
\* list is found in the region map, and the binary found there is the
\* record the binary table holds under the identity of that region.
C1_LookupFindsAdmitted ==
    panicked = "none" =>
        \A r \in AdmittedRegions : \A a \in Addresses :
            (r.start <= a /\ a < r.end) =>
                LET hit == RangeMapGet(regions, a)
                IN  /\ hit # NoneOpt
                    /\ BinaryId(r) \in DOMAIN binary_map
                    /\ hit[1].value.binary = binary_map[BinaryId(r)]

\* A reload over two mappings of one file and a region the filter drops,
\* after an earlier reload: both mappings are found.
C1_Witness ==
    /\ panicked = "none"
    /\ before.binary_ids # {}
    /\ AdmittedRegions = { RA1, RA2 }
    /\ RS1 \in Range(last_regions)
    /\ RangeMapGet(regions, 3) # NoneOpt

\* C2: the delta accounts for the change of the region map,
\* |regions_mapped| - |regions_unmapped| = |map after| - |map before|, and
\* no assertion at the end of reload fails when the admitted regions of
\* the new list are pairwise distinct and disjoint.
C2_DeltaCountsRegions ==
    /\ panicked = "none" =>
           Len(reloaded.regions_mapped) - Len(reloaded.regions_unmapped)
               = Len(regions) - Cardinality(before.regions)
    /\ AdmittedDisjoint => panicked \notin { "range_map", "region_count", "delta" }

\* A reload that maps one region and unmaps two.
C2_Witness ==
    /\ panicked = "none"
    /\ Len(reloaded.regions_mapped) = 1
    /\ Len(reloaded.regions_unmapped) = 2
    /\ Cardinality(before.regions) = 2
    /\ Len(regions) = 1

\* C3 as stated: whenever reload is given the list of the reload before it,
\* its delta is empty.
C3_SameListEmptyDelta ==
    [][ (panicked' = "none" /\ last_regions' = last_regions)
            => reloaded' = EmptyReloaded ]_reload_vars

\* C3, amended: whenever reload is given the list of the reload before it
\* and the loader accepts nothing it is asked for, its delta is empty.
C3_SameListSameLoaderEmptyDelta ==
    [][ ( /\ panicked' = "none"
          /\ last_regions' = last_regions
          /\ \A i \in DOMAIN try_load_calls' : Declines(try_load_calls'[i].callback) )
            => reloaded' = EmptyReloaded ]_reload_vars

\* A reload of two binaries and three regions that changed nothing, with
\* the loader declining again what it is asked for.
C3_Witness ==
    /\ panicked = "none"
    /\ reloaded = EmptyReloaded
    /\ Len(last_regions) = 3
    /\ before.regions = MappedRegions
    /\ before.binary_ids = DOMAIN binary_map
    /\ Len(regions) = 2
    /\ try_load_calls # <<>>

\* The identities with an admitted region in the last list.
AdmittedIds == { BinaryId(r) : r \in AdmittedRegions }

\* A sequence lists each element of a set exactly once.
ListsExactly(entries, set) ==
    /\ Range(entries) = set
    /\ Len(entries) = Cardinality(set)

\* C4: binaries_mapped holds one entry for each identity that has an
\* admitted region in the new list and was not in the binary table before,
\* and regions_mapped holds exactly the admitted regions that were not in
\* the region map before.
C4_MappedIsWhatIsNew ==
    panicked = "none" =>
        /\ ListsExactly([i \in DOMAIN reloaded.binaries_mapped |->
                            EntryId(reloaded.binaries_mapped[i])],
                        AdmittedIds \ before.binary_ids)
        /\ ListsExactly(reloaded.regions_mapped, AdmittedRegions \ before.regions)

\* file_1 is in the table with one region; a second region of it is added:
\* one region mapped, no binary mapped.
C4_Witness ==
    /\ panicked = "none"
    /\ before.binary_ids = { BinaryId(RA1) }
    /\ before.regions = { RA1 }
    /\ reloaded.regions_mapped = << RA2 >>
    /\ reloaded.binaries_mapped = <<>>
    /\ MappedRegions = { RA1, RA2 }

\* C5: binaries_unmapped holds exactly the identities that were in the
\* binary table and have no admitted region in the new list,
\* regions_unmapped exactly the ranges of the regions that were in the
\* region map and are not in the new list, and none of them is in the
\* table or the map afterwards.
C5_UnmappedIsWhatIsGone ==
    panicked = "none" =>
        LET gone_ids == before.binary_ids \ AdmittedIds
            gone_regions == before.regions \ Range(last_regions)
        IN  /\ ListsExactly([i \in DOMAIN reloaded.binaries_unmapped |->
                                EntryId(reloaded.binaries_unmapped[i])], gone_ids)
            /\ ListsExactly(reloaded.regions_unmapped,
                            { [start |-> r.start, end |-> r.end] : r \in gone_regions })
            /\ Len(reloaded.regions_unmapped) = Cardinality(gone_regions)
            /\ gone_ids \cap DOMAIN binary_map = {}
            /\ gone_regions \cap MappedRegions = {}

\* file_1 goes while file_2 stays: one binary and one region unmapped.
C5_Witness ==
    /\ panicked = "none"
    /\ before.binary_ids = { BinaryId(RA1), BinaryId(RB1) }
    /\ before.regions = { RA1, RB1 }
    /\ Len(reloaded.binaries_unmapped) = 1
    /\ Len(reloaded.regions_unmapped) = 1
    /\ DOMAIN binary_map = { BinaryId(RB1) }
    /\ reloaded.binaries_mapped = <<>>

\* C6: every binary referenced by an entry of the region map is in the
\* binary table under the identity of the entry's region, as the same
\* shared record.
C6_MapBinariesAreInTable ==
    \A i \in DOMAIN regions :
        LET id == BinaryId(regions[i].value.memory_region)
        IN  /\ id \in DOMAIN binary_map
            /\ binary_map[id] = regions[i].value.binary

\* Two binaries are mapped and an unwind has run.
C6_Witness ==
    /\ Len(regions) = 2
    /\ Cardinality(DOMAIN binary_map) = 2
    /\ Len(output) = 2

\* C7: the intervals of the region map are pairwise disjoint, each is the
\* [start, end) of the region in its entry, and the map holds one entry
\* per admitted region of the last reload and nothing else.
C7_MapIsTheAdmittedRegions ==
    /\ \A i, j \in DOMAIN regions :
           i # j => \/ regions[i].range.end <= regions[j].range.start
                    \/ regions[j].range.end <= regions[i].range.start
    /\ \A i \in DOMAIN regions :
           /\ regions[i].range.start = regions[i].value.memory_region.start
           /\ regions[i].range.end = regions[i].value.memory_region.end
    /\ panicked = "none" =>
           /\ MappedRegions = AdmittedRegions
           /\ Len(regions) = Cardinality(AdmittedPositions)

\* The map held two regions of file_1; the last list keeps one of them and
\* adds a region of file_2.
C7_Witness ==
    /\ panicked = "none"
    /\ before.regions = { RA1, RA2 }
    /\ MappedRegions = { RA1, RB1 }
    /\ Len(last_regions) = 3

\* C8: in one reload the loader is invoked at most once per identity, and
\* never for an identity that was in the binary table before the reload;
\* an identity with an admitted region is in the table after the reload, so
\* while it keeps one the loader is not invoked for it again.
C8_LoaderAskedOncePerUnknownId ==
    /\ \A i, j \in DOMAIN try_load_calls :
           BinaryId(try_load_calls[i].region) = BinaryId(try_load_calls[j].region) => i = j
    /\ \A i \in DOMAIN try_load_calls :
           BinaryId(try_load_calls[i].region) \notin before.binary_ids
    /\ panicked = "none" => AdmittedIds \subseteq DOMAIN binary_map

\* file_2 was in the table and is listed again; file_1 is listed with two
\* regions and declined: the loader was invoked once, for file_1.
C8_Witness ==
    /\ panicked = "none"
    /\ before.binary_ids = { BinaryId(RB1) }
    /\ Range(last_regions) = { RA1, RA2, RB1 }
    /\ Len(try_load_calls) = 1
    /\ BinaryId(try_load_calls[1].region) = BinaryId(RA1)
    /\ DOMAIN binary_map = { BinaryId(RB1) }

\* The regions of the last list whose identity the loader declined.
DeclinedRegions ==
    { r \in Range(last_regions) : ~FilteredOut(r) /\ BinaryId(r) \in DeclinedIds }

\* C9: when the loader declines an identity, no region of it in the list
\* enters the region map, the binary table or the delta, the loader is
\* invoked for it once, and the regions of the other identities are
\* processed: the reload ends normally if they are disjoint and no caller
\* keeps a clone of a record, and they are all mapped.
C9_DeclinedIdentityIsSkipped ==
    /\ \A id \in DeclinedIds :
           Cardinality({ i \in DOMAIN try_load_calls :
                           BinaryId(try_load_calls[i].region) = id }) = 1
    /\ (AdmittedDisjoint /\ held = EmptyMap) => panicked = "none"
    /\ panicked = "none" =>
           /\ DeclinedIds \cap DOMAIN binary_map = {}
           /\ \A r \in DeclinedRegions :
                  /\ r \notin MappedRegions
                  /\ r \notin Range(reloaded.regions_mapped)
           /\ \A i \in DOMAIN reloaded.binaries_mapped :
                  EntryId(reloaded.binaries_mapped[i]) \notin DeclinedIds
           /\ \A i \in DOMAIN regions : regions[i].value.binary.ptr.id \notin DeclinedIds
           /\ AdmittedRegions \subseteq MappedRegions

\* file_1 is listed with two regions and declined, file_2 is loaded in the
\* same reload.
C9_Witness ==
    /\ panicked = "none"
    /\ DeclinedRegions = { RA1, RA2 }
    /\ MappedRegions = { RB1 }
    /\ Len(reloaded.binaries_mapped) = 1
    /\ Len(try_load_calls) = 2

\* C10: a region that is shared, has no name, or has inode 0 and is not
\* the vdso is never passed to the loader and never enters the region map
\* or regions_mapped, and no binary is registered or reported for it; an
\* unshared vdso region with inode 0 is offered to the loader or reuses
\* the binary of the table.
C10_FilteredRegionsAreIgnored ==
    /\ \A r \in Range(last_regions) :
           FilteredOut(r) =>
               /\ \A i \in DOMAIN try_load_calls : try_load_calls[i].region # r
               /\ r \notin MappedRegions
               /\ panicked = "none" =>
                      /\ r \notin Range(reloaded.regions_mapped)
                      /\ BinaryId(r) \in DOMAIN binary_map => BinaryId(r) \in AdmittedIds
                      /\ \A i \in DOMAIN reloaded.binaries_mapped :
                             EntryId(reloaded.binaries_mapped[i]) = BinaryId(r)
                                 => BinaryId(r) \in AdmittedIds
    /\ \A r \in Range(last_regions) :
           (r.name = "[vdso]" /\ r.inode = 0 /\ ~r.is_shared) =>
               \/ BinaryId(r) \in before.binary_ids
               \/ \E i \in DOMAIN try_load_calls : try_load_calls[i].region = r

\* A list with a shared region, an anonymous region and the vdso: only the
\* vdso is mapped.
C10_Witness ==
    /\ panicked = "none"
    /\ Range(last_regions) = { RS1, RZ1, RV1 }
    /\ MappedRegions = { RV1 }
    /\ Len(try_load_calls) = 1
    /\ Len(reloaded.binaries_mapped) = 1

\* The bytes of a primitive of the given size at an offset of a source, as
\* the value they spell in the given byte order (most significant first).
ValueAt(bytes, offset, size, endianness) ==
    [i \in 1..size |-> IF endianness = "LittleEndian"
                        THEN bytes[offset + size + 1 - i]
                        ELSE bytes[offset + i]]

SizeOf(V) == IF V = "u64" THEN 8 ELSE 4

\* The stack snapshot holds the whole primitive of the last read.
StackServes(r) ==
    /\ r.address >= r.stack_address
    /\ (r.address - r.stack_address) + SizeOf(r.V) <= Len(r.stack)

\* The entry of the region map that covers an address, if any.
Covering(address) ==
    { i \in DOMAIN regions :
        regions[i].range.start <= address /\ address < regions[i].range.end }

\* The offset of an address in the file behind the region map entry i.
FileOffsetOf(i, address) ==
    regions[i].value.memory_region.file_offset + (address - regions[i].range.start)

\* C11: a read that returns follows the dispatch rule: the stack snapshot
\* serves it when the address is at or above stack_address and the
\* primitive lies inside the snapshot, whatever the region map holds there;
\* otherwise the region map is consulted and the value comes from the
\* bytes of the binary at file_offset + (address - range.start); with no
\* covering region, or a binary without raw bytes, the read is a miss.
C11_ReadFollowsDispatch ==
    (memory_read # NoneOpt /\ panicked = "none") =>
        LET r == memory_read[1]
            size == SizeOf(r.V)
        IN  /\ StackServes(r) =>
                   r.value = Some(ValueAt(r.stack, r.address - r.stack_address, size,
                                          r.endianness))
            /\ (~StackServes(r) /\ Covering(r.address) = {}) => r.value = NoneOpt
            /\ ~StackServes(r) =>
                   \A i \in Covering(r.address) :
                       LET data == regions[i].value.binary.data
                       IN  IF data = NoneOpt THEN r.value = NoneOpt
                           ELSE r.value = Some(ValueAt(as_bytes(data[1]),
                                                       FileOffsetOf(i, r.address),
                                                       size, r.endianness))

\* A u32 read at the stack address, which a region of file_1 with raw bytes
\* covers too: the value is the one on the stack.
C11_Witness ==
    /\ panicked = "none"
    /\ memory_read # NoneOpt
    /\ memory_read[1].address = 1
    /\ memory_read[1].stack_address = 1
    /\ memory_read[1].V = "u32"
    /\ memory_read[1].endianness = "BigEndian"
    /\ memory_read[1].value = Some(<< 170, 21, 22, 23 >>)
    /\ \E i \in Covering(1) : regions[i].value.binary.data # NoneOpt

\* C12: a read that straddles the end of its source is a miss and no
\* fault: the end of the stack snapshot (no region covering the address),
\* or the end of the bytes of the covering binary.
C12_StraddlingReadMisses ==
    memory_read # NoneOpt =>
        LET r == memory_read[1]
            size == SizeOf(r.V)
        IN  /\ ( /\ r.address >= r.stack_address
                 /\ ~StackServes(r)
                 /\ Covering(r.address) = {} )
                   => (r.value = NoneOpt /\ panicked = "none")
            /\ ~StackServes(r) =>
                   \A i \in Covering(r.address) :
                       LET data == regions[i].value.binary.data
                       IN  ( /\ data # NoneOpt
                             /\ FileOffsetOf(i, r.address) + size > Len(as_bytes(data[1])) )
                               => (r.value = NoneOpt /\ panicked = "none")

\* The addresses a mapping is loaded at, and the addresses it declares.
ActualRange(mapping) ==
    { a \in 0..(mapping.actual_address + mapping.size) :
        mapping.actual_address <= a /\ a < mapping.actual_address + mapping.size }

DeclaredRange(mapping) ==
    { mapping.declared_address + (a - mapping.actual_address) : a \in ActualRange(mapping) }

\* No mapping of the list declares an address that a mapping of the list is
\* loaded at.
DeclaredClearOfActual(mappings) ==
    \A i, j \in DOMAIN mappings :
        DeclaredRange(mappings[i]) \cap ActualRange(mappings[j]) = {}

\* C13 as stated: translating a translated address gives the translated
\* address, for every list of mappings and every address.
C13_TranslationIdempotent ==
    (translation # NoneOpt /\ translation[1].twice # NoneOpt) =>
        translation[1].twice = translation[1].relative

\* C13, amended: translating a translated address gives the translated
\* address when no mapping of the list declares an address that a mapping
\* of the list is loaded at.
C13_IdempotentWhenDeclaredClearOfActual ==
    ( /\ translation # NoneOpt
      /\ translation[1].twice # NoneOpt
      /\ DeclaredClearOfActual(translation[1].mappings) ) =>
        translation[1].twice = translation[1].relative

\* Address 3 translated twice through two mappings that both cover it and
\* declare addresses above every address they are loaded at.
C13_Witness ==
    /\ translation # NoneOpt
    /\ translation[1].mappings = << AddressMapping(20, 1, 3), AddressMapping(10, 2, 2) >>
    /\ translation[1].address = 3
    /\ translation[1].relative = Some(22)
    /\ translation[1].twice = Some(22)

\* C14: the address returned is address - actual + declared of the first
\* mapping of the list with actual <= address < actual + size, and the
\* address itself when no mapping of the list covers it.
C14_FirstCoveringMappingTranslates ==
    (translation # NoneOpt /\ translation[1].relative # NoneOpt) =>
        LET t == translation[1]
            covering == { i \in DOMAIN t.mappings :
                            /\ t.mappings[i].actual_address <= t.address
                            /\ t.address < t.mappings[i].actual_address + t.mappings[i].size }
        IN  /\ covering = {} => t.relative = Some(t.address)
            /\ \A i \in covering :
                   (\A j \in covering : i <= j) =>
                       t.relative = Some(t.address - t.mappings[i].actual_address
                                             + t.mappings[i].declared_address)

\* Address 3 is covered by both mappings of the list; the first one
\* translates it.
C14_Witness ==
    /\ translation # NoneOpt
    /\ translation[1].mappings = << AddressMapping(2, 0, 4), AddressMapping(10, 2, 2) >>
    /\ translation[1].address = 3
    /\ translation[1].relative = Some(5)

\* C15: unwind clears the output first: what it leaves in the output are
\* the frames of this call only; with no stack pointer it leaves the
\* output empty, whatever it held, and runs no architecture step.
C15_NoStackPointerNoFrames ==
    unwound # NoneOpt =>
        /\ Len(output) = Len(unwound[1].steps)
        /\ unwound[1].sp = NoneOpt =>
               /\ output = <<>>
               /\ unwound[1].steps = <<>>
               /\ unwound[1].ip = NoneOpt

\* An unwind without stack pointer, handed an output that held frames.
C15_Witness ==
    /\ unwound # NoneOpt
    /\ unwound[1].sp = NoneOpt
    /\ unwound[1].had_frames
    /\ output = <<>>
    /\ Len(regions) = 2

\* C16: an unwind with a stack pointer that returns leaves at least one
\* frame; the first is the initial instruction pointer; every further frame
\* is the one the step before it reported, so the output has one frame
\* more than steps that reported one; the only step that reported none is
\* the last one; and an initial instruction pointer outside every region
\* gives exactly one frame.
C16_FramesInnermostFirst ==
    [][ ( /\ << output, unwound >>' # << output, unwound >>
          /\ unwound'[1].sp # NoneOpt
          /\ panicked' = "none" ) =>
            LET u == unwound'[1]
                out == output'
            IN  /\ Len(out) >= 1
                /\ out[1].address = u.ip[1]
                /\ Len(out) = 1 + Cardinality({ k \in DOMAIN u.steps : u.steps[k].further })
                /\ \A k \in DOMAIN u.steps :
                       /\ u.steps[k].further <=> k < Len(u.steps)
                       /\ u.steps[k].further => out[k + 1].address = u.steps[k].address[1]
                /\ Covering(u.ip[1]) = {} => Len(out) = 1 ]_vars

\* An unwind from inside file_1 through file_2 and back: three frames.
C16_Witness ==
    /\ panicked = "none"
    /\ unwound # NoneOpt
    /\ unwound[1].sp = Some(6)
    /\ Len(output) = 3
    /\ output[1].address = 1
    /\ output[2].address = 4
    /\ output[3].address = 1
    /\ Len(unwound[1].steps) = 3

\* The name of the first table of a list with a symbol at an address.
NameAt(tables, relative_address) ==
    IF \A i \in DOMAIN tables : get_symbol(tables[i], relative_address) = NoneOpt
    THEN NoneOpt
    ELSE LET first == CHOOSE i \in DOMAIN tables :
                         /\ get_symbol(tables[i], relative_address) # NoneOpt
                         /\ \A j \in 1..(i - 1) :
                                get_symbol(tables[j], relative_address) = NoneOpt
         IN  Some(get_symbol(tables[first], relative_address)[1][2])

\* C17: decode_symbol_while hands the visitor exactly one frame, whatever
\* the visitor answers; its absolute_address is the address asked for; for
\* an address no region covers it is unnamed with the address as relative
\* address; for a covered address the relative address is the translated
\* one and the name is that of the first symbol table, in registration
\* order, with a symbol there, or none when no table has one.
C17_VisitorInvokedOnce ==
    decoded # NoneOpt =>
        LET d == decoded[1]
        IN  /\ Len(d.frames) = 1
            /\ d.frames[1].absolute_address = d.address
            /\ Covering(d.address) = {} =>
                   /\ d.frames[1].relative_address = d.address
                   /\ d.frames[1].name = NoneOpt
            /\ \A i \in Covering(d.address) :
                   LET binary == regions[i].value.binary
                   IN  /\ d.frames[1].relative_address
                              = translate_address(binary.mappings, d.address)
                       /\ d.frames[1].name
                              = NameAt(binary.symbols, d.frames[1].relative_address)

\* Address 1 of file_1, whose debug table and file table both have a symbol
\* at the translated address 11; the visitor answers FALSE.
C17_Witness ==
    /\ decoded # NoneOpt
    /\ decoded[1].address = 1
    /\ ~decoded[1].visitor_returns
    /\ Len(decoded[1].frames) = 1
    /\ decoded[1].frames[1].relative_address = 11
    /\ decoded[1].frames[1].name = Some("main")
    /\ \E i \in Covering(1) : Len(regions[i].value.binary.symbols) = 2

\* C18: whatever the region list and whatever the loader does, with no
\* handle held outside the manager, reload returns: no assertion and no
\* other fatal abort ends it.
C18_ReloadNeverAborts ==
    held = EmptyMap => panicked = "none"

\* The identities of the last list that reload found in the old binary
\* table and reused.
ReusedIds ==
    { BinaryId(r) : r \in { x \in Range(last_regions) : ~FilteredOut(x) } }
        \cap before.binary_ids

\* C19: the unique-ownership check of reload fails only for a record of
\* the old table that the list names and of which a caller keeps a clone
\* at the moment of the check; with no clone kept, no sequence of reload
\* and unwind calls makes it fail, and every binary of the old table that
\* the list names is reused.
C19_UniqueOwnerUnlessCloneKept ==
    /\ panicked = "unimplemented" =>
           \E handle \in DOMAIN held : handle.id \in ReusedIds
    /\ (before.held = EmptyMap /\ panicked = "none") =>
           ReusedIds \subseteq DOMAIN binary_map

\* Two binaries with a region each were in the table, no clone was kept,
\* an unwind has run, and a reload reused both.
C19_Witness ==
    /\ panicked = "none"
    /\ before.held = EmptyMap
    /\ Cardinality(ReusedIds) = 2
    /\ Cardinality(before.regions) = 2
    /\ try_load_calls = <<>>
    /\ Len(output) = 2

\* The address mappings the last list gives an identity: one for each
\* admitted region of the identity whose file_offset is that of a load
\* header, in the order of the list.
RECURSIVE MappingsFromList(_, _, _)
MappingsFromList(list, id, headers) ==
    IF list = <<>> THEN <<>>
    ELSE LET region == list[Len(list)]
             rest == MappingsFromList(SubSeq(list, 1, Len(list) - 1), id, headers)
             matching == { i \in DOMAIN headers : headers[i].file_offset = region.file_offset }
         IN  IF Admitted(region) /\ BinaryId(region) = id /\ matching # {}
             THEN Append(rest,
                         [declared_address |->
                              headers[CHOOSE i \in matching : \A j \in matching : i <= j].address,
                          actual_address |-> region.start,
                          file_offset |-> region.file_offset,
                          size |-> region.end - region.start])
             ELSE rest

\* C20: after a reload the address mappings of every binary of the table
\* are those of the current list only: one per admitted region of the
\* identity with a matching load header, in list order, and none left from
\* an earlier reload, also for a reused binary.
C20_MappingsFromCurrentList ==
    panicked = "none" =>
        \A id \in DOMAIN binary_map :
            binary_map[id].mappings
                = MappingsFromList(last_regions, id, binary_map[id].load_headers)

\* file_1 was mapped with two regions and is reused with the second one
\* only: one mapping is left.
C20_Witness ==
    /\ panicked = "none"
    /\ before.regions = { RA1, RA2 }
    /\ BinaryId(RA1) \in before.binary_ids
    /\ MappedRegions = { RA2 }
    /\ Len(binary_map[BinaryId(RA2)].mappings) = 1
    /\ binary_map[BinaryId(RA2)].mappings[1].declared_address = 20
    /\ try_load_calls = <<>>

\* C21: a reload that returns leaves every binary that was in the table
\* and is still in it with the raw bytes, symbol tables, frame descriptions
\* and load headers it had; the loader is not invoked for it, and it is in
\* neither binaries_mapped nor binaries_unmapped.
C21_ReusedBinaryKeepsItsParts ==
    [][ (decoded' = NoneOpt /\ panicked' = "none") =>
            \A id \in DOMAIN binary_map \cap DOMAIN binary_map' :
                /\ binary_map'[id].data = binary_map[id].data
                /\ binary_map'[id].symbols = binary_map[id].symbols
                /\ binary_map'[id].frame_descriptions = binary_map[id].frame_descriptions
                /\ binary_map'[id].load_headers = binary_map[id].load_headers
                /\ \A i \in DOMAIN try_load_calls' :
                       BinaryId(try_load_calls'[i].region) # id
                /\ \A i \in DOMAIN reloaded'.binaries_mapped :
                       EntryId(reloaded'.binaries_mapped[i]) # id
                /\ \A i \in DOMAIN reloaded'.binaries_unmapped :
                       EntryId(reloaded'.binaries_unmapped[i]) # id ]_vars

\* file_1, loaded without symbols, and file_2, loaded with two symbol
\* tables and frame descriptions, were in the table; a reload reused
\* both.
C21_Witness ==
    /\ panicked = "none"
    /\ before.binary_ids = { BinaryId(RA1), BinaryId(RB1) }
    /\ DOMAIN binary_map = { BinaryId(RA1), BinaryId(RB1) }
    /\ binary_map[BinaryId(RA1)].symbols = <<>>
    /\ binary_map[BinaryId(RA1)].data # NoneOpt
    /\ Len(binary_map[BinaryId(RB1)].symbols) = 2
    /\ binary_map[BinaryId(RB1)].frame_descriptions # NoneOpt
    /\ try_load_calls = <<>>
    /\ reloaded = EmptyReloaded

\* C22: a region the loader is asked for is declined exactly when the
\* callback called neither set_binary nor add_region_mapping: then its
\* identity is not in the table and the region not in the map; otherwise a
\* new binary is registered and reported, and the region is mapped.
C22_DeclinedIffHandleEmpty ==
    panicked = "none" =>
        \A i \in DOMAIN try_load_calls :
            LET call == try_load_calls[i]
                id == BinaryId(call.region)
            IN  IF CallbackCalls(call.callback) \cap { "set_binary", "add_region_mapping" } = {}
                THEN /\ id \notin DOMAIN binary_map
                     /\ call.region \notin MappedRegions
                     /\ \A j \in DOMAIN reloaded.binaries_mapped :
                            EntryId(reloaded.binaries_mapped[j]) # id
                ELSE /\ id \in DOMAIN binary_map
                     /\ call.region \in MappedRegions
                     /\ \E j \in DOMAIN reloaded.binaries_mapped :
                            EntryId(reloaded.binaries_mapped[j]) = id

\* In one reload the loader registers only a load header for file_1 and
\* only a debug binary and symbols for file_2: file_1 is staged without raw
\* bytes, file_2 is declined.
C22_Witness ==
    /\ panicked = "none"
    /\ Len(try_load_calls) = 2
    /\ \E i \in DOMAIN try_load_calls :
           /\ try_load_calls[i].callback = "mapping"
           /\ try_load_calls[i].region = RA1
    /\ \E i \in DOMAIN try_load_calls :
           /\ try_load_calls[i].callback = "debug"
           /\ try_load_calls[i].region = RB1
    /\ DOMAIN binary_map = { BinaryId(RA1) }
    /\ binary_map[BinaryId(RA1)].data = NoneOpt
    /\ MappedRegions = { RA1 }

\* The identities with a region in the last list that passes the filter.
ListedIds == { BinaryId(r) : r \in { x \in Range(last_regions) : ~FilteredOut(x) } }

\* The calls of the last reload for an identity.
CallsFor(id) == { i \in DOMAIN try_load_calls : BinaryId(try_load_calls[i].region) = id }

\* C23: no record of declined or loaded identities outlives a reload: an
\* identity that is listed and was not in the table when the reload began,
\* in particular one the reload before declined or unmapped, is offered to
\* the loader once in this reload, and when the loader accepts it the
\* binary is registered and reported in binaries_mapped.
C23_NothingRememberedAcrossReloads ==
    panicked = "none" =>
        \A id \in ListedIds :
            ( \/ id \in earlier.declined
              \/ id \in { EntryId(e) : e \in earlier.unmapped }
              \/ id \notin before.binary_ids ) =>
                /\ Cardinality(CallsFor(id)) = 1
                /\ \A i \in CallsFor(id) :
                       ~Declines(try_load_calls[i].callback) =>
                           /\ id \in DOMAIN binary_map
                           /\ \E j \in DOMAIN reloaded.binaries_mapped :
                                  EntryId(reloaded.binaries_mapped[j]) = id

\* The reload before declined file_1 and unmapped file_2; the last one
\* lists both and the loader accepts both.
C23_Witness ==
    /\ panicked = "none"
    /\ earlier.declined = { BinaryId(RA1) }
    /\ { EntryId(e) : e \in earlier.unmapped } = { BinaryId(RB1) }
    /\ ListedIds = { BinaryId(RA1), BinaryId(RB1) }
    /\ Len(try_load_calls) = 2
    /\ Len(reloaded.binaries_mapped) = 2
    /\ DOMAIN binary_map = { BinaryId(RA1), BinaryId(RB1) }

\* C24: after a reload that returns, every binary of the binary table is
\* the record of at least one entry of the region map whose region has the
\* binary's identity, and a binary none of whose regions is admitted from
\* the new list has left the table.
C24_EveryBinaryHasARegion ==
    panicked = "none" =>
        /\ \A id \in DOMAIN binary_map :
               \E i \in DOMAIN regions :
                   /\ BinaryId(regions[i].value.memory_region) = id
                   /\ regions[i].value.binary = binary_map[id]
        /\ \A id \in before.binary_ids :
               (\A r \in AdmittedRegions : BinaryId(r) # id) => id \notin DOMAIN binary_map

\* file_1 was mapped by two regions; the last list holds neither of them
\* and a region of file_2, which is the only binary left in the table.
C24_Witness ==
    /\ panicked = "none"
    /\ before.binary_ids = { BinaryId(RA1) }
    /\ before.regions = { RA1, RA2 }
    /\ MappedRegions = { RB1 }
    /\ DOMAIN binary_map = { BinaryId(RB1) }

====
